---- MODULE Spec2Model ----
(***************************************************************************)
(* vidium: the frame-to-video pipeline of packages/vidium/src/main.rs.     *)
(*                                                                         *)
(* Two tasks run: the pipeline task (the body of main) and the spawned     *)
(* task that polls the chromiumoxide handler.  The browser emits           *)
(* screencast frame events on the websocket (wire); the handler task       *)
(* dispatches them to the registered event listener (listener); the        *)
(* pipeline drains the listener, one event per loop iteration.             *)
(*                                                                         *)
(* History variables (received, encoded, acks, inits, opened, finishes,    *)
(* closes, aligned, dropped, failure) record what the pipeline did; the    *)
(* code does not read them.                                                *)
(***************************************************************************)
EXTENDS Integers, Sequences, FiniteSets, TLC

\* ------------------------------------------------------------------ bounds

\* Number of screencast frame events the browser emits in a run.
MaxFrames == 3
\* Frames the browser sends without having seen their acknowledgment.
MaxInFlight == 2
\* Largest raw capture timestamp, in units of 1/SubNano nanosecond.
MaxRaw == 4
\* Raw timestamp units per nanosecond: the fraction `as u64` truncates.
SubNano == 2
\* Nanoseconds per tick of the time base of `position`.
NanosPerTick == 2

\* --------------------------------------------------------------- constants

\* EncoderSettings::for_h264_yuv420p(1600, 1200, true)
EncoderWidth == 1600
EncoderHeight == 1200
\* #[arg(long, default_value_t = 800)] width, 600 height
DefaultWidth == 800
DefaultHeight == 600
\* to_rgb8(): three channels
Channels == 3

\* Option<T>: None is the empty tuple, Some(x) the tuple of x.
None == <<>>
Some(x) == <<x>>

VARIABLES
    pc,             \* position of the pipeline task in main
    hpc,            \* the spawned handler task: "polling" or "stopped"
    hres,           \* what the handler stream last yielded
    viewport,       \* <<args.width, args.height>>
    casting,        \* the browser has started the screencast
    listening,      \* the screencast event listener is registered
    closed,         \* the listener's channel has been closed by the transport
    wire,           \* frame events on the websocket, not yet dispatched
    listener,       \* frame events buffered in the listener
    emitted,        \* number of frame events the browser has emitted
    acked,          \* number of acknowledgments the browser has seen
    item,           \* the event of the current iteration
    frame,          \* shape of the converted frame of the current iteration
    prev_duration,  \* Option<Duration>, in nanoseconds
    position,       \* Time, in ticks
    settings,       \* the encoder's <<width, height>>, None before it is opened
    inits,          \* calls of video_rs::init
    opened,         \* encoders opened
    received,       \* the events listener.next() has yielded, in order
    encoded,        \* the successful encoder.encode calls, in order
    acks,           \* the session ids handed to page.execute(ScreencastFrameAck)
    aligned,        \* calls of position.aligned_with(..).add()
    finishes,       \* calls of encoder.finish
    closes,         \* calls of browser.close
    joined,         \* handle.await has returned
    conn,           \* the browser connection: "open" or "closed"
    dropped,        \* frame events dispatched while no listener was registered
    failure         \* the step that failed, "none" while none has

vars == <<pc, hpc, hres, viewport, casting, listening, closed, wire, listener,
          emitted, acked, item, frame, prev_duration, position, settings,
          inits, opened, received, encoded, acks, aligned, finishes, closes,
          joined, conn, dropped, failure>>

\* ------------------------------------------------------------------ inputs

\* What the base64 payload of an event holds: a JPEG of some size, bytes
\* that are no JPEG, or text that is no base64.
Small == <<DefaultWidth, DefaultHeight>>
Full == <<EncoderWidth, EncoderHeight>>
Images == {Small, Full}
BadBase64 == <<"bad_base64">>
BadJpeg == <<"bad_jpeg">>

RawTimestamps == -1 .. MaxRaw

\* EventScreencastFrame { data, metadata.timestamp: Option<..>, session_id }.
\* The browser numbers the frames of a screencast: session_id is the frame
\* number.  A frame of the encoder's size carries any timestamp or none; a
\* frame of another size the smallest or the largest one; the timestamp of
\* an event whose payload does not decode is never read.
Payloads ==
    [data : {Full}, timestamp : {Some(t) : t \in RawTimestamps} \cup {None}]
    \cup [data : {Small}, timestamp : {Some(0), Some(MaxRaw)}]
    \cup [data : {BadBase64, BadJpeg}, timestamp : {Some(0)}]

EventOf(p, n) == [data |-> p.data, timestamp |-> p.timestamp, session_id |-> n]

Viewports == {Small, Full}

Terminated == pc \in {"done", "err", "panicked"}

\* ---------------------------------------------------------- pure functions

\* Duration::from_nanos((timestamp * 1000000000.0) as u64): the float-to-u64
\* cast drops the fraction of a nanosecond and saturates a negative value to 0.
ToNanos(raw) == IF raw < 0 THEN 0 ELSE raw \div SubNano

\* "overflow when subtracting durations"
Overflow == -1

\* ts - *prev on Duration: panics when the result would be negative.
DurationSubSaturating(ts, prev) == IF ts < prev THEN 0 ELSE ts - prev

DurationSub(ts, prev) == IF ts < prev THEN Overflow ELSE ts - prev

\* delta.into() aligned with the time base of position: the nanoseconds
\* rescaled to ticks, rounded to the nearest tick, halves away from zero.
AlignedTicks(delta) == (2 * delta + NanosPerTick) \div (2 * NanosPerTick)

\* position.aligned_with(&delta.into()).add()
AlignedAddReplace(pos, delta) == AlignedTicks(delta)

AlignedSub(pos, delta) == pos - AlignedTicks(delta)

AlignedAdd(pos, delta) == pos + AlignedTicks(delta)

\* image.to_rgb8() then nshare::ToNdarray3::into_ndarray3: the shape
\* (channels, height, width) of an image of <<width, height>>.
IntoNdarray3(image) == <<Channels, image[2], image[1]>>

\* frame.permuted_axes(axes): axis i of the result is axis axes[i] of shape
\* (axes count from 0).
PermutedAxes(shape, axes) == [i \in 1 .. 3 |-> shape[axes[i] + 1]]

\* lines 106-113: the (height, width, channels) frame handed to the encoder.
ToFrame(image) == PermutedAxes(IntoNdarray3(image), <<1, 2, 0>>)

\* EncoderSettings::for_h264_yuv420p(1600, 1200, true): the profile does
\* not read the viewport.
SettingsFromViewport(vp) == vp

EncoderSettings(vp) == <<EncoderWidth, EncoderHeight>>

\* Encoder::encode: rejects a frame whose shape is not (height, width, 3) of
\* the settings; a frame of the right shape may still be rejected by the codec.
EncodeResults(shape, st) ==
    IF shape = <<st[2], st[1], Channels>> THEN {"ok", "rejected"} ELSE {"mismatch"}

\* page.execute / browser.close go through the handler: with the handler
\* task gone the command cannot be delivered.
ExecuteResults == IF hpc = "polling" THEN {"ok", "err"} ELSE {"err"}

\* lines 94-95: prev_duration = None, position = Time::zero()
InitialClockSome == [prev_duration |-> Some(0), position |-> 0]

InitialClock == [prev_duration |-> None, position |-> 0]

\* -------------------------------------------------------------------- Init

Init ==
    /\ pc = "startcast"
    /\ hpc = "polling"
    /\ hres = "ok"
    /\ viewport \in Viewports
    /\ casting = FALSE
    /\ listening = FALSE
    /\ closed = FALSE
    /\ wire = <<>>
    /\ listener = <<>>
    /\ emitted = 0
    /\ acked = 0
    /\ item = None
    /\ frame = None
    /\ prev_duration = InitialClock.prev_duration
    /\ position = InitialClock.position
    /\ settings = None
    /\ inits = 0
    /\ opened = 0
    /\ received = <<>>
    /\ encoded = <<>>
    /\ acks = <<>>
    /\ aligned = 0
    /\ finishes = 0
    /\ closes = 0
    /\ joined = FALSE
    /\ conn = "open"
    /\ dropped = 0
    /\ failure = "none"

\* ------------------------------------------------------- the pipeline task

\* A step of main that only moves on, or fails: what it leaves alone.
Abort(how, step) ==
    /\ pc' = how
    /\ failure' = step

\* lines 68-75: let _ = page.execute(StartScreencastParams).await
StartScreencast ==
    /\ pc = "startcast"
    /\ pc' = "listen"
    /\ \E r \in ExecuteResults : casting' = (r = "ok")
    /\ UNCHANGED <<hpc, hres, viewport, listening, closed, wire, listener,
                   emitted, acked, item, frame, prev_duration, position,
                   settings, inits, opened, received, encoded, acks, aligned,
                   finishes, closes, joined, conn, dropped, failure>>

\* lines 77-79: page.event_listener::<EventScreencastFrame>().await?
Listen ==
    /\ pc = "listen"
    /\ IF hpc = "polling"
       THEN /\ listening' = TRUE
            /\ pc' = "init"
            /\ UNCHANGED failure
       ELSE /\ Abort("err", "listener")
            /\ UNCHANGED listening
    /\ UNCHANGED <<hpc, hres, viewport, casting, closed, wire, listener,
                   emitted, acked, item, frame, prev_duration, position,
                   settings, inits, opened, received, encoded, acks, aligned,
                   finishes, closes, joined, conn, dropped>>

\* line 89: video_rs::init().unwrap()
InitRuntimeSkipped ==
    /\ pc = "init"
    /\ pc' = "open"
    /\ UNCHANGED <<hpc, hres, viewport, casting, listening, closed, wire,
                   listener, emitted, acked, item, frame, prev_duration,
                   position, settings, inits, opened, received, encoded, acks,
                   aligned, finishes, closes, joined, conn, dropped, failure>>

InitRuntime ==
    /\ pc = "init"
    /\ inits' = inits + 1
    /\ \/ pc' = "open" /\ UNCHANGED failure
       \/ Abort("panicked", "init")
    /\ UNCHANGED <<hpc, hres, viewport, casting, listening, closed, wire,
                   listener, emitted, acked, item, frame, prev_duration,
                   position, settings, opened, received, encoded, acks,
                   aligned, finishes, closes, joined, conn, dropped>>

\* lines 91-92: Encoder::new(&destination, settings).expect(..)
OpenEncoder ==
    /\ pc = "open"
    /\ \/ /\ settings' = EncoderSettings(viewport)
          /\ opened' = opened + 1
          /\ pc' = "recv"
          /\ UNCHANGED failure
       \/ /\ Abort("panicked", "open")
          /\ UNCHANGED <<settings, opened>>
    /\ UNCHANGED <<hpc, hres, viewport, casting, listening, closed, wire,
                   listener, emitted, acked, item, frame, prev_duration,
                   position, inits, received, encoded, acks, aligned,
                   finishes, closes, joined, conn, dropped>>

\* line 97: while let Some(item) = listener.next().await
Recv ==
    /\ pc = "recv"
    /\ \/ /\ listener # <<>>
          /\ item' = Head(listener)
          /\ listener' = Tail(listener)
          /\ received' = Append(received, Head(listener))
          /\ pc' = "decode"
       \/ /\ listener = <<>>
          /\ closed
          /\ pc' = "finish"
          /\ UNCHANGED <<item, listener, received>>
    /\ UNCHANGED <<hpc, hres, viewport, casting, listening, closed, wire,
                   emitted, acked, frame, prev_duration, position, settings,
                   inits, opened, encoded, acks, aligned, finishes, closes,
                   joined, conn, dropped, failure>>

\* lines 99-101: STANDARD.decode(item.data).unwrap()
DecodeSkip ==
    /\ pc = "decode"
    /\ IF item.data = BadBase64
       THEN /\ pc' = "recv"
            /\ failure' = "base64"
       ELSE /\ pc' = "load"
            /\ UNCHANGED failure
    /\ UNCHANGED <<hpc, hres, viewport, casting, listening, closed, wire,
                   listener, emitted, acked, item, frame, prev_duration,
                   position, settings, inits, opened, received, encoded, acks,
                   aligned, finishes, closes, joined, conn, dropped>>

Decode ==
    /\ pc = "decode"
    /\ IF item.data = BadBase64
       THEN Abort("panicked", "base64")
       ELSE /\ pc' = "load"
            /\ UNCHANGED failure
    /\ UNCHANGED <<hpc, hres, viewport, casting, listening, closed, wire,
                   listener, emitted, acked, item, frame, prev_duration,
                   position, settings, inits, opened, received, encoded, acks,
                   aligned, finishes, closes, joined, conn, dropped>>

\* lines 106-117: load_from_memory_with_format(..).unwrap(), to_rgb8,
\* into_ndarray3, permuted_axes([1, 2, 0])
LoadImage ==
    /\ pc = "load"
    /\ IF item.data = BadJpeg
       THEN /\ Abort("panicked", "jpeg")
            /\ UNCHANGED frame
       ELSE /\ frame' = ToFrame(item.data)
            /\ pc' = "clock"
            /\ UNCHANGED failure
    /\ UNCHANGED <<hpc, hres, viewport, casting, listening, closed, wire,
                   listener, emitted, acked, item, prev_duration, position,
                   settings, inits, opened, received, encoded, acks, aligned,
                   finishes, closes, joined, conn, dropped>>

\* lines 119-128: the presentation clock
ClockDefaultTimestamp ==
    /\ pc = "clock"
    /\ IF FALSE
       THEN /\ Abort("panicked", "timestamp")
            /\ UNCHANGED <<prev_duration, position, aligned>>
       ELSE LET ts == IF item.timestamp = None THEN 0
                      ELSE ToNanos(item.timestamp[1]) IN
            IF prev_duration = None
            THEN /\ prev_duration' = Some(ts)
                 /\ pc' = "encode"
                 /\ UNCHANGED <<position, aligned, failure>>
            ELSE LET delta == DurationSub(ts, prev_duration[1]) IN
                 IF delta = Overflow
                 THEN /\ Abort("panicked", "clock")
                      /\ UNCHANGED <<prev_duration, position, aligned>>
                 ELSE /\ position' = AlignedAdd(position, delta)
                      /\ aligned' = aligned + 1
                      /\ prev_duration' = Some(ts)
                      /\ pc' = "encode"
                      /\ UNCHANGED failure
    /\ UNCHANGED <<hpc, hres, viewport, casting, listening, closed, wire,
                   listener, emitted, acked, item, frame, settings, inits,
                   opened, received, encoded, acks, finishes, closes, joined,
                   conn, dropped>>

Clock ==
    /\ pc = "clock"
    /\ IF item.timestamp = None
       THEN /\ Abort("panicked", "timestamp")
            /\ UNCHANGED <<prev_duration, position, aligned>>
       ELSE LET ts == ToNanos(item.timestamp[1]) IN
            IF prev_duration = None
            THEN /\ prev_duration' = Some(ts)
                 /\ pc' = "encode"
                 /\ UNCHANGED <<position, aligned, failure>>
            ELSE LET delta == DurationSub(ts, prev_duration[1]) IN
                 IF delta = Overflow
                 THEN /\ Abort("panicked", "clock")
                      /\ UNCHANGED <<prev_duration, position, aligned>>
                 ELSE /\ position' = AlignedAdd(position, delta)
                      /\ aligned' = aligned + 1
                      /\ prev_duration' = Some(ts)
                      /\ pc' = "encode"
                      /\ UNCHANGED failure
    /\ UNCHANGED <<hpc, hres, viewport, casting, listening, closed, wire,
                   listener, emitted, acked, item, frame, settings, inits,
                   opened, received, encoded, acks, finishes, closes, joined,
                   conn, dropped>>

\* lines 131-133: encoder.encode(&frame, &position).expect(..)
EncodeIgnoreErr ==
    /\ pc = "encode"
    /\ \E r \in EncodeResults(frame, settings) :
          /\ encoded' = IF r = "ok"
                         THEN Append(encoded, [shape |-> frame, position |-> position])
                         ELSE encoded
          /\ pc' = "ack"
          /\ UNCHANGED failure
    /\ UNCHANGED <<hpc, hres, viewport, casting, listening, closed, wire,
                   listener, emitted, acked, item, frame, prev_duration,
                   position, settings, inits, opened, received, acks, aligned,
                   finishes, closes, joined, conn, dropped>>

Encode ==
    /\ pc = "encode"
    /\ \E r \in EncodeResults(frame, settings) :
          IF r = "ok"
          THEN /\ encoded' = Append(encoded, [shape |-> frame, position |-> position])
               /\ pc' = "ack"
               /\ UNCHANGED failure
          ELSE /\ Abort("panicked", IF r = "mismatch" THEN "encode_mismatch" ELSE "encode")
               /\ UNCHANGED encoded
    /\ UNCHANGED <<hpc, hres, viewport, casting, listening, closed, wire,
                   listener, emitted, acked, item, frame, prev_duration,
                   position, settings, inits, opened, received, acks, aligned,
                   finishes, closes, joined, conn, dropped>>

\* lines 137-143: page.execute(ScreencastFrameAckParams{session_id}).await?
AckWith(token, send) ==
    /\ pc = "ack"
    /\ acks' = IF send THEN Append(acks, token) ELSE acks
    /\ \E r \in ExecuteResults :
          IF r = "ok"
          THEN /\ acked' = acked + 1
               /\ pc' = "recv"
               /\ UNCHANGED failure
          ELSE /\ Abort("err", "ack")
               /\ UNCHANGED acked
    /\ UNCHANGED <<hpc, hres, viewport, casting, listening, closed, wire,
                   listener, emitted, item, frame, prev_duration, position,
                   settings, inits, opened, received, encoded, aligned,
                   finishes, closes, joined, conn, dropped>>

AckStale == AckWith(received[1].session_id, TRUE)

AckOnlyFirst == AckWith(item.session_id, acks = <<>>)

Ack == AckWith(item.session_id, TRUE)

\* line 146: encoder.finish().expect(..)
FinishIfEncoded ==
    /\ pc = "finish"
    /\ finishes' = IF encoded = <<>> THEN finishes ELSE finishes + 1
    /\ \/ pc' = "close" /\ UNCHANGED failure
       \/ encoded # <<>> /\ Abort("panicked", "finish")
    /\ UNCHANGED <<hpc, hres, viewport, casting, listening, closed, wire,
                   listener, emitted, acked, item, frame, prev_duration,
                   position, settings, inits, opened, received, encoded, acks,
                   aligned, closes, joined, conn, dropped>>

FinishThenJoin ==
    /\ pc = "finish"
    /\ finishes' = finishes + 1
    /\ \/ pc' = "join" /\ UNCHANGED failure
       \/ Abort("panicked", "finish")
    /\ UNCHANGED <<hpc, hres, viewport, casting, listening, closed, wire,
                   listener, emitted, acked, item, frame, prev_duration,
                   position, settings, inits, opened, received, encoded, acks,
                   aligned, closes, joined, conn, dropped>>

Finish ==
    /\ pc = "finish"
    /\ finishes' = finishes + 1
    /\ \/ pc' = "close" /\ UNCHANGED failure
       \/ Abort("panicked", "finish")
    /\ UNCHANGED <<hpc, hres, viewport, casting, listening, closed, wire,
                   listener, emitted, acked, item, frame, prev_duration,
                   position, settings, inits, opened, received, encoded, acks,
                   aligned, closes, joined, conn, dropped>>

\* line 148: browser.close().await?
Close ==
    /\ pc = "close"
    /\ closes' = closes + 1
    /\ \E r \in ExecuteResults :
          IF r = "ok"
          THEN /\ conn' = "closed"
               /\ pc' = "join"
               /\ UNCHANGED failure
          ELSE /\ Abort("err", "close")
               /\ UNCHANGED conn
    /\ UNCHANGED <<hpc, hres, viewport, casting, listening, closed, wire,
                   listener, emitted, acked, item, frame, prev_duration,
                   position, settings, inits, opened, received, encoded, acks,
                   aligned, finishes, joined, dropped>>

\* lines 149-150: let _ = handle.await; Ok(())
JoinDetached ==
    /\ pc = "join"
    /\ joined' = TRUE
    /\ pc' = "done"
    /\ UNCHANGED <<hpc, hres, viewport, casting, listening, closed, wire,
                   listener, emitted, acked, item, frame, prev_duration,
                   position, settings, inits, opened, received, encoded, acks,
                   aligned, finishes, closes, conn, dropped, failure>>

Join ==
    /\ pc = "join"
    /\ hpc = "stopped"
    /\ joined' = TRUE
    /\ pc' = "done"
    /\ UNCHANGED <<hpc, hres, viewport, casting, listening, closed, wire,
                   listener, emitted, acked, item, frame, prev_duration,
                   position, settings, inits, opened, received, encoded, acks,
                   aligned, finishes, closes, conn, dropped, failure>>

\* -------------------------------------------------------- the handler task

\* lines 56-62, handler.next() yields Some(Ok): a frame event read from the
\* websocket is handed to the listener, or lost when none is registered.
HandlerDispatch ==
    /\ hpc = "polling"
    /\ ~Terminated
    /\ wire # <<>>
    /\ hres' = "ok"
    /\ wire' = Tail(wire)
    /\ IF listening
       THEN /\ listener' = IF closed THEN listener ELSE Append(listener, Head(wire))
            /\ UNCHANGED dropped
       ELSE /\ dropped' = dropped + 1
            /\ UNCHANGED listener
    /\ UNCHANGED <<pc, hpc, viewport, casting, listening, closed, emitted,
                   acked, item, frame, prev_duration, position, settings,
                   inits, opened, received, encoded, acks, aligned, finishes,
                   closes, joined, conn, failure>>

\* lines 57-60, handler.next() yields Some(Err): break
HandlerErr ==
    /\ hpc = "polling"
    /\ ~Terminated
    /\ hres' = "err"
    /\ hpc' = "stopped"
    /\ closed' = TRUE
    /\ UNCHANGED <<pc, viewport, casting, listening, wire, listener, emitted,
                   acked, item, frame, prev_duration, position, settings,
                   inits, opened, received, encoded, acks, aligned, finishes,
                   closes, joined, conn, dropped, failure>>

\* line 57, handler.next() yields None: the connection has closed
HandlerEnd ==
    /\ hpc = "polling"
    /\ ~Terminated
    /\ conn = "closed"
    /\ hres' = "end"
    /\ hpc' = "stopped"
    /\ closed' = TRUE
    /\ UNCHANGED <<pc, viewport, casting, listening, wire, listener, emitted,
                   acked, item, frame, prev_duration, position, settings,
                   inits, opened, received, encoded, acks, aligned, finishes,
                   closes, joined, conn, dropped, failure>>

\* ------------------------------------------------------------- the browser

\* The browser emits a screencast frame event, at most MaxInFlight ahead of
\* the acknowledgments it has seen; the websocket carries one undispatched
\* frame event at a time.
BrowserEmit ==
    /\ casting
    /\ ~Terminated
    /\ conn = "open"
    /\ ~closed
    /\ emitted < MaxFrames
    /\ emitted - acked < MaxInFlight
    /\ wire = <<>>
    /\ \E p \in Payloads : wire' = Append(wire, EventOf(p, emitted + 1))
    /\ emitted' = emitted + 1
    /\ UNCHANGED <<pc, hpc, hres, viewport, casting, listening, closed,
                   listener, acked, item, frame, prev_duration, position,
                   settings, inits, opened, received, encoded, acks, aligned,
                   finishes, closes, joined, conn, dropped, failure>>

\* The page is closed: the listener's stream ends once it is drained.
TargetClosed ==
    /\ ~Terminated
    /\ listening
    /\ ~closed
    /\ closed' = TRUE
    /\ UNCHANGED <<pc, hpc, hres, viewport, casting, listening, wire,
                   listener, emitted, acked, item, frame, prev_duration,
                   position, settings, inits, opened, received, encoded, acks,
                   aligned, finishes, closes, joined, conn, dropped, failure>>

Next ==
    \/ StartScreencast
    \/ Listen
    \/ InitRuntime
    \/ OpenEncoder
    \/ Recv
    \/ Decode
    \/ LoadImage
    \/ Clock
    \/ Encode
    \/ Ack
    \/ Finish
    \/ Close
    \/ Join
    \/ HandlerDispatch
    \/ HandlerErr
    \/ HandlerEnd
    \/ BrowserEmit
    \/ TargetClosed

Spec == Init /\ [][Next]_vars

\* The steps of the pipeline task.
Pipeline ==
    \/ StartScreencast
    \/ Listen
    \/ InitRuntime
    \/ OpenEncoder
    \/ Recv
    \/ Decode
    \/ LoadImage
    \/ Clock
    \/ Encode
    \/ Ack
    \/ Finish
    \/ Close
    \/ Join

\* The tokio runtime keeps polling both tasks: the pipeline task takes its
\* next step when it can, and the handler task dispatches what is on the
\* websocket and sees the connection close.
FairSpec ==
    /\ Spec
    /\ WF_vars(Pipeline)
    /\ WF_vars(HandlerDispatch)
    /\ WF_vars(HandlerEnd)

\* ------------------------------------------------------------------ claims

\* The raw capture timestamp of the k-th received event (it carries one).
RawOf(k) == received[k].timestamp[1]

\* The capture timestamp of the k-th received event as the clock reads it.
NanosOf(k) == ToNanos(RawOf(k))

\* The shape of a frame the encoder's profile accepts.
ProfileShape == <<EncoderHeight, EncoderWidth, Channels>>

\* The pipeline is between the receipt of an event and its encode.
Processing == pc \in {"decode", "load", "clock", "encode"}

\* C1: the acknowledgments handed to the transport are, in order, the
\* session tokens of the received events; one is sent per encoded frame, so
\* that outside the step between an encode and its acknowledgment there are
\* exactly as many acknowledgments as encoded frames.
AckPerFrame ==
    /\ Len(acks) <= Len(encoded)
    /\ Len(encoded) <= Len(acks) + 1
    /\ (pc # "ack" => Len(acks) = Len(encoded))
    /\ \A k \in 1 .. Len(acks) : acks[k] = received[k].session_id

AckPerFrameWitness ==
    /\ Len(encoded) = 3
    /\ acks = <<1, 2, 3>>

\* C2 (as claimed): a run that has ended, by end-of-stream or by a fatal
\* error, after at least one frame was encoded has invoked encoder.finish
\* exactly once; finish is never invoked twice, and the loop is over when it
\* is invoked.
FinalizeOnce ==
    /\ finishes <= 1
    /\ (finishes = 1 => pc \in {"close", "join", "done", "err", "panicked"})
    /\ (Terminated /\ Len(encoded) >= 1 => finishes = 1)

\* C3: at most one received event is unacknowledged, and while an event is
\* being processed every earlier event has been acknowledged.
PullBackpressure ==
    /\ Len(received) - Len(acks) <= 1
    /\ (Processing => Len(acks) = Len(received) - 1)

PullBackpressureWitness ==
    /\ pc = "decode"
    /\ Len(received) = 2
    /\ Len(acks) = 1
    /\ listener # <<>>

\* C4: where the capture timestamps of two adjacent encoded events do not
\* decrease, neither do their positions; equal timestamps give equal
\* positions.
MonotonicPosition ==
    \A k \in 2 .. Len(encoded) :
        /\ (RawOf(k - 1) <= RawOf(k) =>
                encoded[k - 1].position <= encoded[k].position)
        /\ (RawOf(k - 1) = RawOf(k) =>
                encoded[k - 1].position = encoded[k].position)

MonotonicPositionWitness ==
    /\ Len(encoded) = 3
    /\ RawOf(1) < RawOf(2)
    /\ RawOf(2) = RawOf(3)
    /\ encoded[1].position < encoded[2].position
    /\ encoded[2].position = encoded[3].position

\* C5: the first event is encoded at position zero whatever its timestamp,
\* with no alignment computed for it; a stream that ends after one event has
\* encoded one frame at position zero and finalized the encoder once.
FirstFrameIdentity ==
    /\ (Len(encoded) >= 1 => encoded[1].position = 0)
    /\ (Len(received) <= 1 => aligned = 0 /\ position = 0)
    /\ (Len(received) = 1 /\ pc \in {"close", "join", "done"} =>
            /\ Len(encoded) = 1
            /\ finishes = 1
            /\ failure = "none")

FirstFrameIdentityWitness ==
    /\ pc = "done"
    /\ Len(received) = 1
    /\ RawOf(1) = MaxRaw
    /\ encoded[1].position = 0

FailStop ==
    /\ [](failure # "none" => pc \in {"err", "panicked"})
    /\ [][Terminated =>
            UNCHANGED <<pc, item, frame, received, encoded, acks, position,
                        prev_duration, finishes, failure>>]_vars

FailStopWitness ==
    /\ pc = "panicked"
    /\ failure = "base64"
    /\ Len(received) = 2
    /\ listener # <<>>

\* C8: the encoder's profile is the fixed 1600x1200 whatever the viewport,
\* every encoded frame has the profile's shape, and an event whose image has
\* another size is never encoded: the pipeline stops on it.
FixedProfile ==
    /\ (opened = 0 => settings = None)
    /\ (opened >= 1 => settings = <<EncoderWidth, EncoderHeight>>)
    /\ \A k \in 1 .. Len(encoded) : encoded[k].shape = ProfileShape
    /\ \A k \in 1 .. Len(received) :
            (received[k].data \in Images /\ received[k].data # settings)
            => /\ Len(encoded) < k
               /\ k = Len(received)
               /\ Processing \/ pc = "panicked"

FixedProfileWitness ==
    /\ viewport = Small
    /\ pc = "panicked"
    /\ failure = "encode_mismatch"
    /\ Len(encoded) = 1
    /\ received[2].data = Small

\* The sum of the separately aligned deltas up to the k-th received event.
RECURSIVE SumAligned(_)
SumAligned(k) ==
    IF k <= 1 THEN 0
    ELSE SumAligned(k - 1) + AlignedTicks(NanosOf(k) - NanosOf(k - 1))

\* C9 (as claimed): every valid image is encoded whatever its size, and
\* the k-th frame is encoded at the aligned difference of its capture
\* timestamp and the first one.
HappyPathTiming ==
    /\ failure # "encode_mismatch"
    /\ \A k \in 1 .. Len(encoded) :
            encoded[k].position = AlignedTicks(NanosOf(k) - NanosOf(1))

\* C9 (amended): the frames encoded are those of the profile's size; the
\* k-th is encoded at the sum of the separately aligned deltas of the first
\* k events; and whenever the loop waits for the next event every received
\* event has been encoded.
HappyPathAlignedSum ==
    /\ \A k \in 1 .. Len(encoded) :
            /\ received[k].data = Full
            /\ encoded[k].position = SumAligned(k)
    /\ (pc = "recv" => Len(encoded) = Len(received))

HappyPathAlignedSumWitness ==
    /\ pc = "recv"
    /\ Len(encoded) = 3
    /\ encoded[3].position # AlignedTicks(NanosOf(3) - NanosOf(1))

\* A step of the pipeline between the receipt of an event and the end of
\* its iteration.
FrameStep == Decode \/ LoadImage \/ Clock \/ Encode \/ Ack

\* C10 (as claimed): on every exit of the pipeline that has received an
\* event the handler task has been joined.
JoinedOnEveryExit == Terminated /\ Len(received) >= 1 => joined

\* C10 (amended): the handler task stops only when its stream ends or
\* yields an error; processing a frame never waits on it; the pipeline joins
\* it on its successful exit only, after the encoder was finalized and the
\* browser closed.
MaintenanceTask ==
    /\ (hpc = "stopped" => hres \in {"err", "end"})
    /\ (hpc = "polling" => hres = "ok")
    /\ (hres = "end" => conn = "closed")
    /\ (Processing \/ pc = "ack" => ENABLED FrameStep)
    /\ (pc = "join" => finishes = 1 /\ closes = 1 /\ conn = "closed")
    /\ (joined => finishes = 1 /\ closes = 1 /\ hpc = "stopped")
    /\ (joined <=> pc = "done")

MaintenanceTaskWitness ==
    /\ joined
    /\ hres = "end"
    /\ Len(encoded) >= 1

\* The steps of an iteration that come before its acknowledgment.
FrameFailures ==
    {"base64", "jpeg", "timestamp", "clock", "encode", "encode_mismatch"}

\* C11: an acknowledgment is handed to the transport only in a step taken
\* after the event's encode succeeded, and an event on which the decode, the
\* clock or the encode failed is never acknowledged.
AckAfterEncode ==
    /\ [][acks' # acks =>
            /\ pc = "ack"
            /\ Len(encoded) = Len(received)
            /\ acks' = Append(acks, received[Len(encoded)].session_id)]_vars
    /\ [](failure \in FrameFailures =>
            /\ Len(acks) = Len(received) - 1
            /\ Len(encoded) = Len(received) - 1)

AckAfterEncodeWitness ==
    /\ failure = "encode"
    /\ Len(received) = 2
    /\ acks = <<1>>

RuntimeInitOrdering ==
    /\ inits <= 1
    /\ opened <= 1
    /\ (opened = 1 => inits = 1)
    /\ (pc = "open" => inits = 1 /\ opened = 0)
    /\ (Processing \/ pc \in {"recv", "ack", "finish", "close", "join", "done"} =>
            inits = 1 /\ opened = 1)
    /\ (Len(encoded) >= 1 \/ finishes >= 1 => inits = 1 /\ opened = 1)

RuntimeInitOrderingWitness ==
    /\ Len(encoded) = 2
    /\ inits = 1
    /\ opened = 1
    /\ pc = "done"

\* C14 (as claimed): no frame event the browser emits is lost: none is
\* dispatched while no listener is registered, and while the listener's
\* stream is open every emitted event is on the websocket, in the listener
\* or received by the loop.
NoLostCaptureEvent ==
    /\ dropped = 0
    /\ (~closed => emitted = Len(wire) + Len(listener) + Len(received))

\* C15: when the stream ends before any event was received, nothing is
\* encoded or acknowledged, and encoder.finish is invoked once, before
\* browser.close.
ZeroFrameStream ==
    /\ (received = <<>> => encoded = <<>> /\ acks = <<>>)
    /\ (received = <<>> /\ pc = "finish" => finishes = 0 /\ closes = 0)
    /\ (received = <<>> /\ pc \in {"close", "join", "done"} => finishes = 1)
    /\ (received = <<>> /\ failure \in {"finish", "close"} => finishes = 1)
    /\ (received = <<>> /\ closes >= 1 => finishes = 1)

ZeroFrameStreamWitness ==
    /\ received = <<>>
    /\ pc = "done"
    /\ finishes = 1
    /\ closes = 1

\* The clock state as the first k received events leave it.
PrevAfter(k) == IF k = 0 THEN None ELSE Some(NanosOf(k))

PositionAfter(k) == IF k = 0 THEN 0 ELSE encoded[k].position

\* C16: an event without a capture timestamp stops the pipeline at the clock,
\* after its image was decoded and converted: it is neither encoded nor
\* acknowledged, it is the last event received, and prev_duration and
\* position stay as the previous frame left them.
MissingTimestampFatal ==
    /\ \A k \in 1 .. Len(received) :
            (received[k].data \in Images /\ received[k].timestamp = None)
            => /\ k = Len(received)
               /\ Len(encoded) = k - 1
               /\ Len(acks) = k - 1
               /\ pc \in {"decode", "load", "clock"}
                     \/ (pc = "panicked" /\ failure = "timestamp")
    /\ (failure = "timestamp" =>
            /\ item.timestamp = None
            /\ frame = ToFrame(item.data)
            /\ prev_duration = PrevAfter(Len(received) - 1)
            /\ position = PositionAfter(Len(received) - 1))

MissingTimestampFatalWitness ==
    /\ failure = "timestamp"
    /\ Len(received) = 2
    /\ prev_duration = Some(ToNanos(MaxRaw))
    /\ Len(encoded) = 1
    /\ listener # <<>>

====
